---- MODULE Spec2Model ----
(***************************************************************************)
(* Model of the deployment status watcher (cmd.watchDeployment) and of the *)
(* deploy dispatcher (cmd.deployDocker, cmd.deployGit, deploy.DeployGit)   *)
(* of dropalltables/cdp, with the API client's request, docker.Build and   *)
(* ui.Spinner.                                                             *)
(*                                                                         *)
(* src/cmd/deploy.go holds two revisions of package cmd, lines 1-1100 and  *)
(* lines 1101-2113.  The watcher variable rev says which one runs: "r1" is *)
(* the first, "r2" the second.  Their loops are the same; r2 prints a      *)
(* verdict line before it returns and r1 prints none.  "r3" is package      *)
(* deploy (deploy.DeployGit), whose config keeps one application UUID.     *)
(***************************************************************************)
EXTENDS Integers, Sequences, FiniteSets, TLC

\* ------------------------------------------------------------------ bounds

\* Longest parsed log blob the control plane returns.
MaxLogLen == 2

\* ------------------------------------------------------- program constants

\* maxAttempts := 120
maxAttempts == 120

\* if hadDeployment && emptyCount >= 3
EmptyThreshold == 3

\* if !hadDeployment && attempt >= 15
NoDeploymentAttempts == 15

\* ------------------------------------------------------------- the inputs

\* The application UUID the watcher is called with.
AppUUIDs == {"app1"}

\* Status strings of a deployment as GetDeployment sends them.
DetailStatuses ==
    {"queued", "running", "finished", "failed", "error", "cancelled", "Finished"}

\* Status strings of a deployment as ListDeployments sends them.
ListStatuses ==
    {"running", "finished", "failed", "error", "cancelled", "Failed"}

\* Status strings of an application.
AppStatuses == {"running", "exited", "error", "failed", "starting", "Running"}

\* strings.ToLower on the strings above.
ToLower(s) ==
    CASE s = "Finished" -> "finished"
      [] s = "Failed" -> "failed"
      [] s = "Running" -> "running"
      [] OTHER -> s

\* The text of a deployment's log: the control plane returns a prefix of it,
\* the whole blob so far, on every GetDeployment.
LogChar(i) == IF i % 2 = 0 THEN "\n" ELSE <<"a", "b", "c", "d", "e">>[(i + 1) \div 2]

Blob(n) == [i \in 1..n |-> LogChar(i)]

Blobs == {Blob(n) : n \in 0..MaxLogLen}

\* One item of ListDeployments: api.Deployment{UUID, DeploymentUUID, Status}.
Items ==
    [UUID : {"u1"}, DeploymentUUID : {"", "d1"}, Status : ListStatuses]

\* What GetDeployment returns: an error, or the detail (Status and the
\* parsed Logs, api.ParseLogs(detail.Logs)).
DetailResponses ==
    {[err |-> TRUE, Status |-> "", parsedLogs |-> <<>>]}
        \cup [err : {FALSE}, Status : DetailStatuses, parsedLogs : Blobs]

\* What GetApplication returns: an error, or the application's Status.
AppResponses ==
    {[err |-> TRUE, Status |-> ""]} \cup [err : {FALSE}, Status : AppStatuses]

\* The newline fmt.Println() adds after new content that does not end in one.
\* It is no character of the blob, so it is kept apart from "\n".
EOL == "<eol>"

\* -------------------------------------------------------------- the state

VARIABLES
    rev,                \* the revision of package cmd that runs
    wpc,                \* "polling": in the loop; "returned": watchDeployment returned
    appUUID,            \* the parameter appUUID
    attempt,            \* attempt
    lastLogLen,         \* lastLogLen
    lastDeploymentUUID, \* lastDeploymentUUID
    hadDeployment,      \* hadDeployment
    emptyCount,         \* emptyCount
    verdict,            \* the returned bool, once wpc = "returned"
    msg,                \* the verdict line printed before returning ("" if none)
    out,                \* log text printed for the deployment now tracked
    polls,              \* history: number of ListDeployments calls made
    cycle,              \* history: what the control plane answered in the last cycle
    clean,              \* history: every poll so far fetched the detail of one same deployment
    seen,               \* history: longest blob fetched for the deployment now tracked
    hist                \* history: what the ListDeployments calls so far returned

wvars ==
    <<rev, wpc, appUUID, attempt, lastLogLen, lastDeploymentUUID, hadDeployment,
      emptyCount, verdict, msg, out, polls, cycle, clean, seen, hist>>

VARIABLES
    dpc,                \* where the dispatcher stands ("idle": no dispatcher runs)
    method,             \* projectCfg.DeployMethod
    env,                \* the environment deployed to
    cfgApps,            \* projectCfg.AppUUIDs in memory (r3: AppUUID, under env)
    diskApps,           \* the same as last saved by config.SaveProject
    tasks,              \* r3: the tasks still to run
    dAppUUID,           \* the dispatcher's local appUUID
    calls,              \* history: the remote operations of this invocation, in order
    instant,            \* history: InstantDeploy of the create call ("none" before it)
    pushedNew,          \* history: the push carried a new commit
    derr                \* the error the dispatcher returned ("" for nil)

dvars ==
    <<dpc, method, env, cfgApps, diskApps, tasks, dAppUUID, calls, instant,
      pushedNew, derr>>

VARIABLES
    spc,                \* where firstTimeSetup stands ("none": it does not run)
    newProject,         \* selectedProject == "+ Create new project"
    projectUUID,        \* projectUUID
    previewEnvUUID,     \* previewEnvUUID
    prodEnvUUID,        \* prodEnvUUID
    remoteEnvs,         \* the control plane: environment name -> UUID ("": none) of the project
    cfgProject,         \* projectCfg: its project and environment UUIDs (NoConfig: nil)
    diskProject,        \* the same as last saved by config.SaveProject
    scalls              \* history: the client calls of firstTimeSetup in this invocation

svars ==
    <<spc, newProject, projectUUID, previewEnvUUID, prodEnvUUID, remoteEnvs,
      cfgProject, diskProject, scalls>>

VARIABLES
    runs,               \* history: the number of this invocation of the deploy command
    nCreated,           \* history: successful create calls of all invocations, per resource
    prev                \* history: how the invocation before this one ended (NoPrev: none)

ivars == <<runs, nCreated, prev>>

VARIABLES
    bpc,                \* where docker.Build stands ("idle": it does not run)
    bopts,              \* opts: Platform
    files,              \* opts.Dir: file name -> content ("": no such file)
    dockerfilePath,     \* dockerfilePath
    tempDockerfile,     \* tempDockerfile
    dockerArgs,         \* the -f and --platform arguments docker ran with (<<>> before)
    touched,            \* history: the files Build has written or removed
    berr                \* what Build returned ("" for nil, "panic" for a panic)

bvars ==
    <<bpc, bopts, files, dockerfilePath, tempDockerfile, dockerArgs, touched, berr>>

VARIABLES
    cpc,                \* where Client.request stands ("idle": it does not run)
    creq,               \* the request: whether body marshals, whether a result is wanted
    cresp,              \* what httpClient.Do and io.ReadAll gave (NoResponse before)
    cerr                \* the error request returned (NoError for nil, once cpc = "done")

cvars == <<cpc, creq, cresp, cerr>>

VARIABLES
    ppc,                \* where the caller of the Spinner stands ("idle": there is no spinner)
    gpc,                \* where the goroutine of Start stands ("none": not started)
    running,            \* s.running
    message,            \* s.message
    frame,              \* s.frame
    lines,              \* len(s.lines)
    ticker,             \* s.ticker: "nil", "active" or "stopped"
    tickerC,            \* the ticks buffered in s.ticker.C (at most one)
    visible,            \* per field: the values a read by the goroutine may return
    unsynced,           \* the fields the caller wrote since the goroutine last synchronized with it
    gtouched,           \* the fields the goroutine has read
    races,              \* history: the fields with an unsynchronized concurrent write and read
    shown,              \* the message of the frame last printed ("": none)
    nCalls,             \* history: the UpdateMessage and Complete calls made
    stops               \* history: the Stop calls that returned

uvars ==
    <<ppc, gpc, running, message, frame, lines, ticker, tickerC, visible,
      unsynced, gtouched, races, shown, nCalls, stops>>

vars == <<wvars, dvars, svars, ivars, bvars, cvars, uvars>>

\* A cycle in which nothing was fetched: item is the latest list item's UUID
\* and DeploymentUUID, reset says that the log position was reset, len is the
\* length of the parsed logs GetDeployment returned, ops are the client
\* calls made in the cycle, in order.
NoCycle ==
    [list |-> "NONE", detail |-> "NONE", app |-> "NONE",
     item |-> <<>>, reset |-> FALSE, len |-> 0, ops |-> <<>>]

\* No ListDeployments call has returned yet: everListed says that some call
\* returned a non-empty list, emptyRun counts the calls that returned an
\* empty list since the last one that returned an error-free non-empty list.
NoHist == [everListed |-> FALSE, emptyRun |-> 0]

\* The locals of watchDeployment at loop entry.
WatcherEntry(r, app) ==
    /\ rev = r
    /\ wpc = "polling"
    /\ appUUID = app
    /\ attempt = 0
    /\ lastLogLen = 0
    /\ lastDeploymentUUID = ""
    /\ hadDeployment = FALSE
    /\ emptyCount = 0
    /\ verdict = FALSE
    /\ msg = ""
    /\ out = <<>>
    /\ polls = 0
    /\ cycle = NoCycle
    /\ clean = TRUE
    /\ seen = 0
    /\ hist = NoHist

\* No dispatcher: watchDeployment is called on its own.
NoDispatcher ==
    /\ dpc = "idle"
    /\ method = "none"
    /\ env = "none"
    /\ cfgApps = <<>>
    /\ diskApps = <<>>
    /\ tasks = <<>>
    /\ dAppUUID = ""
    /\ calls = <<>>
    /\ instant = "none"
    /\ pushedNew = FALSE
    /\ derr = ""

NoConfig == [ProjectUUID |-> "", PreviewEnvUUID |-> "", ProdEnvUUID |-> ""]

NoRemoteEnvs == [n \in {"preview", "production"} |-> ""]

\* No first-time setup: the project config is not looked at.
NoSetup ==
    /\ spc = "none"
    /\ newProject = FALSE
    /\ projectUUID = ""
    /\ previewEnvUUID = ""
    /\ prodEnvUUID = ""
    /\ remoteEnvs = NoRemoteEnvs
    /\ cfgProject = NoConfig
    /\ diskProject = NoConfig
    /\ scalls = <<>>

NoCreated ==
    [project |-> 0,
     envs |-> [n \in {"preview", "production"} |-> 0],
     apps |-> [n \in {"preview", "production"} |-> 0]]

NoPrev ==
    [env |-> "none", err |-> "", apps |-> <<>>, project |-> NoConfig, had |-> FALSE]

\* The first invocation, nothing created yet.
FirstRun ==
    /\ runs = 1
    /\ nCreated = NoCreated
    /\ prev = NoPrev

NoFiles == [f \in {"Dockerfile", "Dockerfile.cdp"} |-> ""]

\* docker.Build does not run.
NoBuild ==
    /\ bpc = "idle"
    /\ bopts = [Platform |-> ""]
    /\ files = NoFiles
    /\ dockerfilePath = ""
    /\ tempDockerfile = FALSE
    /\ dockerArgs = <<>>
    /\ touched = {}
    /\ berr = ""

NoResponse == [transport |-> "none", StatusCode |-> 0, body |-> "", read |-> FALSE]

NoError == [kind |-> "nil", StatusCode |-> 0, Message |-> ""]

\* Client.request does not run.
NoRequest ==
    /\ cpc = "idle"
    /\ creq = [marshals |-> TRUE, url |-> TRUE, result |-> FALSE]
    /\ cresp = NoResponse
    /\ cerr = NoError

\* A Spinner as NewSpinner returns it, with no goroutine.
NewSpinner ==
    /\ gpc = "none"
    /\ running = FALSE
    /\ message = ""
    /\ frame = 0
    /\ lines = 0
    /\ ticker = "nil"
    /\ tickerC = 0
    /\ visible = [running |-> {FALSE}, message |-> {""}]
    /\ unsynced = {}
    /\ gtouched = {}
    /\ races = {}
    /\ shown = ""
    /\ nCalls = 0
    /\ stops = 0

\* No Spinner is in use.
NoSpinner == ppc = "idle" /\ NewSpinner

Init ==
    /\ \E r \in {"r1", "r2"}, app \in AppUUIDs : WatcherEntry(r, app)
    /\ NoDispatcher
    /\ NoSetup
    /\ FirstRun
    /\ NoBuild
    /\ NoRequest
    /\ NoSpinner

\* ---------------------------------------------------------- classification

\* The bug: the success status spelled as another word.
IsFinishedWrongWord(status) == status = "success"

\* status == "finished"
IsFinished(status) == status = "finished"

\* status == "failed" || status == "error" || status == "cancelled"
IsFailed(status) == status \in {"failed", "error", "cancelled"}

\* The bug: a failed GetApplication call taken for a failed deployment.
AppFallbackErrorFails(ares) ==
    IF ares.err THEN FALSE
    ELSE LET appStatus == ToLower(ares.Status)
         IN  IF appStatus = "running" THEN TRUE
             ELSE IF appStatus \in {"exited", "error", "failed"} THEN FALSE
             ELSE TRUE

\* The bug: "exited" left out of the failure statuses.
AppFallbackExitedForgotten(ares) ==
    IF ares.err THEN TRUE
    ELSE LET appStatus == ToLower(ares.Status)
         IN  IF appStatus = "running" THEN TRUE
             ELSE IF appStatus \in {"error", "failed"} THEN FALSE
             ELSE TRUE

\* The bug: a status that says neither is taken for a failure.
AppFallbackConservative(ares) ==
    IF ares.err THEN TRUE
    ELSE ToLower(ares.Status) = "running"

\* The application-status fallback: "returned true", "returned false".
AppFallback(ares) ==
    IF ares.err THEN TRUE
    ELSE LET appStatus == ToLower(ares.Status)
         IN  IF appStatus = "running" THEN TRUE
             ELSE IF appStatus \in {"exited", "error", "failed"} THEN FALSE
             ELSE TRUE

\* The line r2 prints on the application-status fallback.
AppFallbackMsg(ares) ==
    IF ares.err THEN "Deployment finished (could not verify status)"
    ELSE LET appStatus == ToLower(ares.Status)
         IN  IF appStatus = "running" THEN "Deployment completed"
             ELSE IF appStatus \in {"exited", "error", "failed"}
                  THEN "Deployment failed (app status)"
             ELSE "Deployment completed"

\* The bug: the generic record UUID preferred.
CanonicalUUIDRecordFirst(item) ==
    IF item.UUID = "" THEN item.DeploymentUUID ELSE item.UUID

\* Use DeploymentUUID if available, otherwise fall back to UUID.
CanonicalUUID(item) ==
    IF item.DeploymentUUID = "" THEN item.UUID ELSE item.DeploymentUUID

\* The bug: the offset dropped, the whole blob printed again.
NewContentWhole(parsedLogs, from) == parsedLogs

\* parsedLogs[lastLogLen:]
NewContent(parsedLogs, from) == SubSeq(parsedLogs, from + 1, Len(parsedLogs))

\* fmt.Print(newContent), then fmt.Println() unless it ends in "\n".
Printed(newContent) ==
    IF newContent[Len(newContent)] = "\n" THEN newContent
    ELSE Append(newContent, EOL)

Say(r, line) == IF r = "r2" THEN line ELSE ""

\* ------------------------------------------------------------ the watcher

\* client.ListDeployments(appUUID)
ListDeployments(app) == <<"ListDeployments", app>>

\* client.GetDeployment(deployUUID)
GetDeployment(deployUUID) == <<"GetDeployment", deployUUID>>

\* The bug: the application is restarted instead of read.
GetApplicationRestarts(app) == <<"RestartApplication", app>>

\* client.GetApplication(appUUID)
GetApplication(app) == <<"GetApplication", app>>

\* The client calls of a cycle with a non-empty list: the list, the detail of
\* the latest deployment and, in the second revision when its status is
\* "finished", the application.
CycleCalls(r, app, deployUUID, dres) ==
    <<ListDeployments(app), GetDeployment(deployUUID)>>
        \o (IF r = "r2" /\ ~dres.err /\ IsFinished(ToLower(dres.Status))
            THEN <<GetApplication(app)>>
            ELSE <<>>)

Return(v, line) ==
    /\ wpc' = "returned"
    /\ verdict' = v
    /\ msg' = Say(rev, line)

\* The bug: attempt++ left out.
NextAttemptForgotten ==
    /\ attempt' = attempt
    /\ UNCHANGED <<wpc, verdict, msg>>

\* The bug: an iteration that costs two attempts.
NextAttemptTwice ==
    /\ attempt' = attempt + 2
    /\ UNCHANGED <<wpc, verdict, msg>>

\* time.Sleep(2 * time.Second); attempt++
NextAttempt ==
    /\ attempt' = attempt + 1
    /\ UNCHANGED <<wpc, verdict, msg>>

\* One iteration in which ListDeployments fails.
PollListError ==
    /\ wpc = "polling"
    /\ UNCHANGED <<dvars, svars, ivars, bvars, cvars, uvars>>
    /\ attempt < maxAttempts
    /\ polls' = polls + 1
    /\ cycle' = [NoCycle EXCEPT !.list = "ERR",
                                 !.ops = <<ListDeployments(appUUID)>>]
    /\ clean' = FALSE
    /\ NextAttempt
    /\ UNCHANGED <<rev, appUUID, lastLogLen, lastDeploymentUUID, hadDeployment,
                   emptyCount, out, seen, hist>>

\* The bug: the application is asked whether or not a deployment was seen.
AskApplicationUngated(had, count) == count >= EmptyThreshold

\* if hadDeployment && emptyCount >= 3
AskApplication(had, count) == had /\ count >= EmptyThreshold

\* The bug: the watcher gives up on the first empty list.
GiveUpAtOnce(had, att) == ~had

\* if !hadDeployment && attempt >= 15
GiveUp(had, att) == ~had /\ att >= NoDeploymentAttempts

\* One iteration in which ListDeployments returns no deployment.
PollEmpty ==
    /\ wpc = "polling"
    /\ UNCHANGED <<dvars, svars, ivars, bvars, cvars, uvars>>
    /\ attempt < maxAttempts
    /\ polls' = polls + 1
    /\ clean' = FALSE
    /\ emptyCount' = emptyCount + 1
    /\ hist' = [hist EXCEPT !.emptyRun = @ + 1]
    /\ IF AskApplication(hadDeployment, emptyCount')
       THEN \E ares \in AppResponses :
               /\ cycle' = [NoCycle EXCEPT !.list = "EMPTY",
                              !.app = IF ares.err THEN "ERR" ELSE ares.Status,
                              !.ops = <<ListDeployments(appUUID),
                                        GetApplication(appUUID)>>]
               /\ Return(AppFallback(ares), AppFallbackMsg(ares))
               /\ UNCHANGED attempt
       ELSE /\ cycle' = [NoCycle EXCEPT !.list = "EMPTY",
                                        !.ops = <<ListDeployments(appUUID)>>]
            /\ IF GiveUp(hadDeployment, attempt)
               THEN Return(FALSE, "No deployment found") /\ UNCHANGED attempt
               ELSE NextAttempt
    /\ UNCHANGED <<rev, appUUID, lastLogLen, lastDeploymentUUID, hadDeployment,
                   out, seen>>

\* The bug: no fallback to the status of the list item.
CycleVerdictDetailOnly(dres, latest) ==
    LET status == ToLower(dres.Status)
    IN  IF ~dres.err /\ IsFinished(status) THEN "true"
        ELSE IF ~dres.err /\ IsFailed(status) THEN "false"
        ELSE "continue"

\* The bug: the list status checked before the detail status.
CycleVerdictListFirst(dres, latest) ==
    LET status == ToLower(dres.Status)
        listStatus == ToLower(latest.Status)
    IN  IF IsFinished(listStatus) THEN "true"
        ELSE IF IsFailed(listStatus) THEN "false"
        ELSE IF ~dres.err /\ IsFinished(status) THEN "true"
        ELSE IF ~dres.err /\ IsFailed(status) THEN "false"
        ELSE "continue"

\* The verdict of a cycle that fetched the detail of the latest deployment:
\* the detail status is checked first (when the fetch succeeded), then the
\* status of the list item.
CycleVerdict(dres, latest) ==
    LET status == ToLower(dres.Status)
        listStatus == ToLower(latest.Status)
    IN  IF ~dres.err /\ IsFinished(status) THEN "true"
        ELSE IF ~dres.err /\ IsFailed(status) THEN "false"
        ELSE IF IsFinished(listStatus) THEN "true"
        ELSE IF IsFailed(listStatus) THEN "false"
        ELSE "continue"

\* The line r2 prints with that verdict.
CycleMsg(dres, latest) ==
    LET status == ToLower(dres.Status)
        listStatus == ToLower(latest.Status)
    IN  IF ~dres.err /\ IsFinished(status) THEN "Deployment completed"
        ELSE IF ~dres.err /\ IsFailed(status) THEN "Deployment " \o status
        ELSE IF IsFinished(listStatus) THEN "Deployment completed"
        ELSE IF IsFailed(listStatus) THEN "Deployment " \o listStatus
        ELSE ""

\* if deployUUID != lastDeploymentUUID { ...; lastLogLen = 0 }
LogOffsetFor(deployUUID) ==
    IF deployUUID # lastDeploymentUUID THEN 0 ELSE lastLogLen

\* The bug: the offset follows the blob also when the blob is shorter.
LogOffsetFollowsBlob(parsedLogs, logLen) == Len(parsedLogs)

\* if len(parsedLogs) > lastLogLen { ...; lastLogLen = len(parsedLogs) }
LogOffsetAfter(parsedLogs, logLen) ==
    IF Len(parsedLogs) > logLen THEN Len(parsedLogs) ELSE logLen

\* What that block prints.
LogOutput(parsedLogs, logLen) ==
    IF Len(parsedLogs) > logLen
    THEN Printed(NewContent(parsedLogs, logLen))
    ELSE <<>>

Max(a, b) == IF a >= b THEN a ELSE b

\* One iteration in which ListDeployments returns deployments, latest first.
PollDeployments ==
    /\ wpc = "polling"
    /\ UNCHANGED <<dvars, svars, ivars, bvars, cvars, uvars>>
    /\ attempt < maxAttempts
    /\ \E latest \in Items, dres \in DetailResponses :
        LET deployUUID == CanonicalUUID(latest)
            isNew == deployUUID # lastDeploymentUUID
            logLen == LogOffsetFor(deployUUID)
            v == CycleVerdict(dres, latest)
        IN  /\ polls' = polls + 1
            /\ hadDeployment' = TRUE
            /\ emptyCount' = 0
            /\ lastDeploymentUUID' = deployUUID
            /\ lastLogLen' =
                    IF dres.err THEN logLen
                    ELSE LogOffsetAfter(dres.parsedLogs, logLen)
            /\ out' = (IF isNew THEN <<>> ELSE out)
                        \o (IF dres.err THEN <<>>
                            ELSE LogOutput(dres.parsedLogs, logLen))
            /\ seen' = Max(IF isNew THEN 0 ELSE seen,
                           IF dres.err THEN 0 ELSE Len(dres.parsedLogs))
            /\ hist' = [everListed |-> TRUE, emptyRun |-> 0]
            /\ cycle' = [list |-> latest.Status,
                         detail |-> IF dres.err THEN "ERR" ELSE dres.Status,
                         app |-> "NONE",
                         item |-> <<latest.UUID, latest.DeploymentUUID>>,
                         reset |-> isNew,
                         len |-> IF dres.err THEN 0 ELSE Len(dres.parsedLogs),
                         ops |-> CycleCalls(rev, appUUID, deployUUID, dres)]
            /\ clean' = (clean /\ ~dres.err /\ (polls = 0 \/ ~isNew))
            /\ IF v = "continue"
               THEN NextAttempt
               ELSE Return(v = "true", CycleMsg(dres, latest)) /\ UNCHANGED attempt
    /\ UNCHANGED <<rev, appUUID>>

\* The loop condition fails: the attempts are used up.
TimedOut ==
    /\ wpc = "polling"
    /\ UNCHANGED <<dvars, svars, ivars, bvars, cvars, uvars>>
    /\ attempt >= maxAttempts
    /\ Return(FALSE, "Deployment still in progress (timed out waiting)")
    /\ UNCHANGED <<rev, appUUID, attempt, lastLogLen, lastDeploymentUUID,
                   hadDeployment, emptyCount, out, polls, cycle, clean, seen, hist>>

Next ==
    \/ PollListError
    \/ PollEmpty
    \/ PollDeployments
    \/ TimedOut

Spec == Init /\ [][Next]_vars

\* ------------------------------------------------------------- the client

\* The watcher has not been called.
WatcherIdle(r) ==
    /\ rev = r
    /\ wpc = "idle"
    /\ appUUID = ""
    /\ attempt = 0
    /\ lastLogLen = 0
    /\ lastDeploymentUUID = ""
    /\ hadDeployment = FALSE
    /\ emptyCount = 0
    /\ verdict = FALSE
    /\ msg = ""
    /\ out = <<>>
    /\ polls = 0
    /\ cycle = NoCycle
    /\ clean = TRUE
    /\ seen = 0
    /\ hist = NoHist

\* apiErr.StatusCode == 409
StatusConflict == 409

\* apiErr.StatusCode == 404
StatusNotFound == 404

\* resp.StatusCode >= 400
ErrorStatusFloor == 400

\* The status codes the control plane answers with.
StatusCodes == {200, 201, 204, 302, 399, 400, 401, 404, 408, 409, 410, 422, 500, 503}

\* The response bodies: none, JSON, not JSON.
Bodies == {"", "{}", "<html>"}

\* json.Unmarshal(respBody, result) works.
ParsesAsJSON(body) == body = "{}"

\* &APIError{StatusCode: resp.StatusCode, Message: string(respBody)}
APIError(code, body) == [kind |-> "api", StatusCode |-> code, Message |-> body]

\* fmt.Errorf("...: %w", err): an error that is no *APIError.
Wrapped(text) == [kind |-> "wrapped", StatusCode |-> 0, Message |-> text]

\* The bug: every client error taken for a conflict.
IsConflictAnyClientError(err) ==
    err.kind = "api" /\ err.StatusCode >= ErrorStatusFloor /\ err.StatusCode < 500

\* IsConflict: err is an *APIError with StatusCode 409.
IsConflict(err) == err.kind = "api" /\ err.StatusCode = StatusConflict

\* IsNotFound: err is an *APIError with StatusCode 404.
IsNotFound(err) == err.kind = "api" /\ err.StatusCode = StatusNotFound

\* request, once the response is in: the read error, the APIError of a status
\* of 400 or more, the parse error, or nil.
Classify(req, resp) ==
    IF ~resp.read THEN Wrapped("failed to read response")
    ELSE IF resp.StatusCode >= ErrorStatusFloor
    THEN APIError(resp.StatusCode, resp.body)
    ELSE IF req.result /\ resp.body # "" /\ ~ParsesAsJSON(resp.body)
    THEN Wrapped("failed to parse response")
    ELSE NoError

\* The watcher, the dispatcher, the setup and docker.Build do not run.
OnlyRequest ==
    /\ WatcherIdle("none")
    /\ NoDispatcher
    /\ NoSetup
    /\ FirstRun
    /\ NoBuild
    /\ NoSpinner

\* A call of Client.request: body may not marshal, the URL may not parse, and
\* result may be nil.
InitClient ==
    /\ OnlyRequest
    /\ cpc = "send"
    /\ creq \in [marshals : BOOLEAN, url : BOOLEAN, result : BOOLEAN]
    /\ cresp = NoResponse
    /\ cerr = NoError

\* request up to c.httpClient.Do(req): the errors before a response, or the
\* response's status line.
RequestSend ==
    /\ cpc = "send"
    /\ IF ~creq.marshals
       THEN /\ cerr' = Wrapped("failed to marshal request body")
            /\ cpc' = "done"
            /\ UNCHANGED cresp
       ELSE IF ~creq.url
       THEN /\ cerr' = Wrapped("failed to create request")
            /\ cpc' = "done"
            /\ UNCHANGED cresp
       ELSE \/ /\ cresp' = [NoResponse EXCEPT !.transport = "failed"]
               /\ cerr' = Wrapped("request failed")
               /\ cpc' = "done"
            \/ /\ \E code \in StatusCodes, body \in Bodies :
                     cresp' = [transport |-> "ok", StatusCode |-> code,
                               body |-> body, read |-> FALSE]
               /\ cpc' = "read"
               /\ UNCHANGED cerr
    /\ UNCHANGED <<wvars, dvars, svars, ivars, bvars, uvars, creq>>

\* request from io.ReadAll(resp.Body) to its return.
RequestRead ==
    /\ cpc = "read"
    /\ \E readOK \in BOOLEAN :
          /\ cresp' = [cresp EXCEPT !.read = readOK]
          /\ cerr' = Classify(creq, cresp')
    /\ cpc' = "done"
    /\ UNCHANGED <<wvars, dvars, svars, ivars, bvars, uvars, creq>>

NextClient ==
    \/ RequestSend
    \/ RequestRead

SpecClient == InitClient /\ [][NextClient]_vars

\* ------------------------------------------------------------ docker.Build

\* config.DefaultPlatform
DefaultPlatform == "linux/amd64"

\* opts.Platform
Platforms == {"", "linux/amd64", "linux/arm64"}

\* What a file of opts.Dir holds: nothing (no such file), what the user wrote,
\* what an earlier run left, GenerateDockerfile(opts.Framework), or the
\* beginning of it.
UserContent == "user"

StaleContent == "stale"

GeneratedContent == "generated"

PartialContent == "partial"

\* What os.Stat(dockerfilePath) can answer: nil or an error that is not
\* IsNotExist for a file that is there, IsNotExist or another error for one
\* that is not.
StatOutcomes(fs) ==
    IF fs["Dockerfile"] # "" THEN {"nil", "other"} ELSE {"notexist", "other"}

\* The bug: the deferred os.Remove left out.
CleanupForgotten(fs, path, temp) == fs

\* defer os.Remove(dockerfilePath), registered if tempDockerfile; the second
\* revision runs it from a recover() as well.
Cleanup(fs, path, temp) == IF temp THEN [fs EXCEPT ![path] = ""] ELSE fs

\* The watcher, the dispatcher, the setup and Client.request do not run.
OnlyBuild(r) ==
    /\ WatcherIdle(r)
    /\ NoDispatcher
    /\ NoSetup
    /\ FirstRun
    /\ NoRequest
    /\ NoSpinner

\* A call of docker.Build in a directory with or without a Dockerfile and
\* with or without a Dockerfile.cdp of an earlier run.
InitBuild ==
    /\ \E r \in {"r1", "r2"} : OnlyBuild(r)
    /\ bpc = "stat"
    /\ bopts \in [Platform : Platforms]
    /\ files \in [{"Dockerfile", "Dockerfile.cdp"} -> {"", UserContent, StaleContent}]
    /\ files["Dockerfile"] # StaleContent
    /\ files["Dockerfile.cdp"] # UserContent
    /\ dockerfilePath = ""
    /\ tempDockerfile = FALSE
    /\ dockerArgs = <<>>
    /\ touched = {}
    /\ berr = ""

\* Build up to the defer: os.Stat, and if the Dockerfile is not there
\* GenerateDockerfile and os.WriteFile, which can fail before or after it
\* opened the file.
BuildPrepare ==
    /\ bpc = "stat"
    /\ \E st \in StatOutcomes(files), write \in {"ok", "open failed", "write failed"} :
          IF st = "notexist"
          THEN IF write = "ok"
               THEN /\ files' = [files EXCEPT !["Dockerfile.cdp"] = GeneratedContent]
                    /\ touched' = touched \cup {"Dockerfile.cdp"}
                    /\ dockerfilePath' = "Dockerfile.cdp"
                    /\ tempDockerfile' = TRUE
                    /\ bpc' = "run"
                    /\ UNCHANGED berr
               ELSE /\ IF write = "write failed"
                       THEN /\ files' = [files EXCEPT !["Dockerfile.cdp"] = PartialContent]
                            /\ touched' = touched \cup {"Dockerfile.cdp"}
                       ELSE UNCHANGED <<files, touched>>
                    /\ dockerfilePath' = "Dockerfile"
                    /\ berr' = "failed to write Dockerfile"
                    /\ bpc' = "done"
                    /\ UNCHANGED tempDockerfile
          ELSE /\ dockerfilePath' = "Dockerfile"
               /\ bpc' = "run"
               /\ UNCHANGED <<files, touched, tempDockerfile, berr>>
    /\ UNCHANGED <<wvars, dvars, svars, ivars, cvars, uvars, bopts, dockerArgs>>

\* Build from the platform default to its return: docker build runs and
\* succeeds, fails or the call panics; then the deferred function.
BuildRun ==
    /\ bpc = "run"
    /\ dockerArgs' = <<"--platform",
                       IF bopts.Platform = "" THEN DefaultPlatform ELSE bopts.Platform,
                       "-f", dockerfilePath>>
    /\ \E outcome \in {"", "docker build failed", "panic"} : berr' = outcome
    /\ files' = Cleanup(files, dockerfilePath, tempDockerfile)
    /\ touched' = IF files' # files THEN touched \cup {dockerfilePath} ELSE touched
    /\ bpc' = "done"
    /\ UNCHANGED <<wvars, dvars, svars, ivars, cvars, uvars, bopts, dockerfilePath,
                   tempDockerfile>>

NextBuild ==
    \/ BuildPrepare
    \/ BuildRun

SpecBuild == InitBuild /\ [][NextBuild]_vars

\* ---------------------------------------------------------- the dispatcher

Envs == {"preview", "production"}

Methods == {"docker", "git"}

\* The application UUID a saved config holds, and the one a create call returns.
SavedAppUUID == "app1"

NewAppUUID == "app2"

\* The AppUUIDs a project config can hold when the dispatcher starts.
SavedConfigs ==
    UNION {[d -> {SavedAppUUID}] : d \in SUBSET Envs}

\* The number of invocations of the deploy command in a row.
MaxRuns == 2

\* The project the user can select, and the one CreateProject returns.
ExistingProjectUUID == "p1"

NewProjectUUID == "p2"

\* The UUIDs of the environments the control plane already has, and the one
\* CreateEnvironment returns for a name.
EnvUUIDs == {"e1", "e2"}

FreshEnvUUID(name) == IF name = "preview" THEN "e3" ELSE "e4"

\* The project and environment UUIDs of a saved config.
SavedProject ==
    [ProjectUUID |-> ExistingProjectUUID, PreviewEnvUUID |-> "e1", ProdEnvUUID |-> "e2"]

\* Where deployDocker and deployGit (r1, r2) and DeployGit (r3) begin.
DispatchEntry(m) == IF m = "docker" THEN "build" ELSE "prepare"

\* runDeploy: config.LoadProject gives nil (r1, r2), and firstTimeSetup runs,
\* or a saved config, which goes to deployDocker or deployGit; r3 is
\* DeployGit, with its one AppUUID kept under "production".
InitDispatch ==
    /\ \E r \in {"r1", "r2", "r3"}, m \in Methods, e \in Envs :
          /\ r = "r3" => (m = "git" /\ e = "production")
          /\ WatcherIdle(r)
          /\ method = m
          /\ env = e
    /\ \/ /\ rev # "r3"
          /\ cfgApps = <<>>
          /\ cfgProject = NoConfig
          /\ remoteEnvs \in [Envs -> {""} \cup EnvUUIDs]
          /\ dpc = "setup"
          /\ spc = "start"
       \/ /\ cfgApps \in SavedConfigs
          /\ rev = "r3" => DOMAIN cfgApps \subseteq {env}
          /\ cfgProject = SavedProject
          /\ remoteEnvs = [n \in Envs |-> IF n = "preview" THEN "e1" ELSE "e2"]
          /\ dpc = DispatchEntry(method)
          /\ spc = "none"
    /\ diskApps = cfgApps
    /\ diskProject = cfgProject
    /\ newProject = FALSE
    /\ projectUUID = ""
    /\ previewEnvUUID = ""
    /\ prodEnvUUID = ""
    /\ scalls = <<>>
    /\ tasks = <<>>
    /\ dAppUUID = ""
    /\ calls = <<>>
    /\ instant = "none"
    /\ pushedNew = FALSE
    /\ derr = ""
    /\ FirstRun
    /\ NoBuild
    /\ NoRequest
    /\ NoSpinner

\* return fmt.Errorf(...): the dispatcher stops here.
Fail(e) ==
    /\ dpc' = "done"
    /\ derr' = e

\* appUUID, exists := projectCfg.AppUUIDs[env]
AppExists == env \in DOMAIN cfgApps

\* projectCfg.AppUUIDs[env] = appUUID
WithApp(cfg, e, uuid) == [k \in DOMAIN cfg \cup {e} |-> IF k = e THEN uuid ELSE cfg[k]]

\* A response of the control plane as Client.request returns it, and an
\* error of the transport.
Answer(code) ==
    Classify([marshals |-> TRUE, url |-> TRUE, result |-> TRUE],
             [transport |-> "ok", StatusCode |-> code, body |-> "{}", read |-> TRUE])

TransportError == Wrapped("request failed")

\* What a client call is remembered by: the operation, the environment name
\* and the status code (0: no response).
SetupCall(op, name, err) ==
    [op |-> op, name |-> name,
     code |-> IF err.kind = "api" THEN err.StatusCode
              ELSE IF err.kind = "nil" THEN 200 ELSE 0]

\* for _, env := range project.Environments { if strings.ToLower(env.Name) == name ... }
FindEnvironment(environments, name) == environments[name]

\* previewEnvUUID or prodEnvUUID
LocalEnv(name) == IF name = "preview" THEN previewEnvUUID ELSE prodEnvUUID

\* What client.GetProject can give: the environments, or an error and so none.
GetProjectAnswers ==
    {[err |-> NoError, environments |-> remoteEnvs],
     [err |-> TransportError, environments |-> NoRemoteEnvs]}

\* What client.CreateEnvironment can give: 409 if the name is taken, else the
\* new environment, an error status, or no response, with the environment
\* made or not.
CreateEnvironmentAnswers(name) ==
    IF remoteEnvs[name] # ""
    THEN {[err |-> Answer(StatusConflict), made |-> FALSE],
          [err |-> TransportError, made |-> FALSE]}
    ELSE {[err |-> NoError, made |-> TRUE],
          [err |-> TransportError, made |-> TRUE],
          [err |-> TransportError, made |-> FALSE],
          [err |-> Answer(500), made |-> FALSE]}

\* firstTimeSetup up to the choice of the project: framework, deploy method,
\* ListServers, ListProjects, ui.Select; for an existing project GetProject
\* (on its error the environments ListProjects gave) and the search for the
\* two environments.
SetupStart ==
    /\ dpc = "setup"
    /\ spc = "start"
    /\ \E ok \in BOOLEAN, new \in BOOLEAN, fresh \in GetProjectAnswers,
          listedEnvs \in {remoteEnvs, NoRemoteEnvs} :
          IF ~ok
          THEN /\ Fail("failed to list projects")
               /\ UNCHANGED <<spc, newProject, projectUUID, previewEnvUUID,
                              prodEnvUUID, scalls>>
          ELSE IF new
          THEN /\ newProject' = TRUE
               /\ spc' = "create"
               /\ UNCHANGED <<dpc, derr, projectUUID, previewEnvUUID, prodEnvUUID,
                              scalls>>
          ELSE LET project == IF fresh.err = NoError THEN fresh.environments
                              ELSE listedEnvs
               IN  /\ newProject' = FALSE
                   /\ projectUUID' = ExistingProjectUUID
                   /\ scalls' = Append(scalls, SetupCall("GetProject", "", fresh.err))
                   /\ previewEnvUUID' = FindEnvironment(project, "preview")
                   /\ prodEnvUUID' = FindEnvironment(project, "production")
                   /\ spc' = "preview"
                   /\ UNCHANGED <<dpc, derr>>
    /\ UNCHANGED <<wvars, method, env, cfgApps, diskApps, tasks, dAppUUID, calls,
                   instant, pushedNew>>
    /\ UNCHANGED <<remoteEnvs, cfgProject, diskProject, ivars, bvars, cvars, uvars>>

\* firstTimeSetup, new project: CreateProject, then GetProject for the
\* environments the control plane made with it (its error is passed over).
CreateNewProject ==
    /\ dpc = "setup"
    /\ spc = "create"
    /\ \E err \in {NoError, TransportError, Answer(500)},
          auto \in {{}, {"production"}, Envs}, fetched \in BOOLEAN :
          IF err # NoError
          THEN /\ scalls' = Append(scalls, SetupCall("CreateProject", "", err))
               /\ Fail(IF rev = "r2" THEN "failed to create project" ELSE "client error")
               /\ UNCHANGED <<spc, projectUUID, previewEnvUUID, prodEnvUUID,
                              remoteEnvs, nCreated>>
          ELSE /\ remoteEnvs' = [n \in Envs |-> IF n \in auto THEN "e1" ELSE ""]
               /\ nCreated' = [nCreated EXCEPT !.project = @ + 1]
               /\ projectUUID' = NewProjectUUID
               /\ LET got == IF fetched THEN NoError ELSE TransportError
                      project == IF fetched THEN remoteEnvs' ELSE NoRemoteEnvs
                  IN  /\ scalls' = scalls \o <<SetupCall("CreateProject", "", err),
                                                SetupCall("GetProject", "", got)>>
                      /\ previewEnvUUID' = FindEnvironment(project, "preview")
                      /\ prodEnvUUID' = FindEnvironment(project, "production")
               /\ spc' = "preview"
               /\ UNCHANGED <<dpc, derr>>
    /\ UNCHANGED <<wvars, method, env, cfgApps, diskApps, tasks, dAppUUID, calls,
                   instant, pushedNew>>
    /\ UNCHANGED <<newProject, cfgProject, diskProject, runs, prev, bvars, cvars, uvars>>

\* firstTimeSetup, one environment: if its UUID is still empty
\* CreateEnvironment; for an existing project a conflict is answered by
\* GetProject and the search for the name, and the error is returned only if
\* the UUID is still empty; for a new project every error is returned.
EnsureEnvironment(name, next) ==
    /\ dpc = "setup"
    /\ spc = name
    /\ IF LocalEnv(name) # ""
       THEN /\ spc' = next
            /\ UNCHANGED <<dpc, derr, previewEnvUUID, prodEnvUUID, remoteEnvs,
                           nCreated, scalls>>
       ELSE \E ans \in CreateEnvironmentAnswers(name), ok \in BOOLEAN :
              LET create == SetupCall("CreateEnvironment", name, ans.err)
                  remote == IF ans.made
                            THEN [remoteEnvs EXCEPT ![name] = FreshEnvUUID(name)]
                            ELSE remoteEnvs
                  refetch == ~newProject /\ IsConflict(ans.err)
                  found == IF ans.err = NoError THEN FreshEnvUUID(name)
                           ELSE IF refetch /\ ok THEN FindEnvironment(remote, name)
                           ELSE ""
              IN  /\ remoteEnvs' = remote
                  /\ nCreated' = IF ans.err = NoError
                                  THEN [nCreated EXCEPT !.envs[name] = @ + 1]
                                  ELSE nCreated
                  /\ scalls' = IF refetch
                                THEN scalls \o <<create,
                                        SetupCall("GetProject", "",
                                            IF ok THEN NoError ELSE TransportError)>>
                                ELSE Append(scalls, create)
                  /\ IF name = "preview"
                     THEN previewEnvUUID' = found /\ UNCHANGED prodEnvUUID
                     ELSE prodEnvUUID' = found /\ UNCHANGED previewEnvUUID
                  /\ IF found = ""
                     THEN Fail("failed to create " \o name \o " environment")
                          /\ UNCHANGED spc
                     ELSE spc' = next /\ UNCHANGED <<dpc, derr>>
    /\ UNCHANGED <<wvars, method, env, cfgApps, diskApps, tasks, dAppUUID, calls,
                   instant, pushedNew>>
    /\ UNCHANGED <<newProject, projectUUID, cfgProject, diskProject, runs, prev,
                   bvars, cvars, uvars>>

EnsurePreview == EnsureEnvironment("preview", "production")

EnsureProduction == EnsureEnvironment("production", "save")

\* firstTimeSetup from the advanced options to its return, and runDeploy up
\* to deployDocker or deployGit: the project config is built and saved.
SetupSave ==
    /\ dpc = "setup"
    /\ spc = "save"
    /\ \E ok \in BOOLEAN, saved \in BOOLEAN :
          IF ok /\ saved
          THEN /\ cfgProject' = [ProjectUUID |-> projectUUID,
                                 PreviewEnvUUID |-> previewEnvUUID,
                                 ProdEnvUUID |-> prodEnvUUID]
               /\ diskProject' = cfgProject'
               /\ cfgApps' = <<>>
               /\ diskApps' = <<>>
               /\ spc' = "saved"
               /\ dpc' = DispatchEntry(method)
               /\ UNCHANGED derr
          ELSE /\ Fail(IF ok THEN "failed to save configuration" ELSE "cancelled")
               /\ UNCHANGED <<spc, cfgProject, diskProject, cfgApps, diskApps>>
    /\ UNCHANGED <<wvars, method, env, tasks, dAppUUID, calls, instant, pushedNew>>
    /\ UNCHANGED <<newProject, projectUUID, previewEnvUUID, prodEnvUUID, remoteEnvs,
                   scalls, ivars, bvars, cvars, uvars>>

\* docker.Build
DockerBuild ==
    /\ dpc = "build"
    /\ calls' = Append(calls, "Build")
    /\ \E ok \in BOOLEAN :
          IF ok THEN dpc' = "push" /\ UNCHANGED derr
          ELSE Fail("build failed")
    /\ UNCHANGED <<wvars, method, env, cfgApps, diskApps, tasks, dAppUUID,
                   instant, pushedNew>>
    /\ UNCHANGED <<svars, ivars, bvars, cvars, uvars>>

\* docker.Push
DockerPush ==
    /\ dpc = "push"
    /\ calls' = Append(calls, "Push")
    /\ \E ok \in BOOLEAN :
          IF ok THEN dpc' = "app" /\ UNCHANGED derr
          ELSE Fail("push failed")
    /\ UNCHANGED <<wvars, method, env, cfgApps, diskApps, tasks, dAppUUID,
                   instant, pushedNew>>
    /\ UNCHANGED <<svars, ivars, bvars, cvars, uvars>>

\* The create call answered: the UUID goes to the local, to the config and,
\* when SaveProject works, to disk.  r1 returns SaveProject's error, r2 drops
\* it, r3 returns it.
AppCreated(saved) ==
    /\ nCreated' = [nCreated EXCEPT !.apps[env] = @ + 1]
    /\ dAppUUID' = NewAppUUID
    /\ cfgApps' = WithApp(cfgApps, env, NewAppUUID)
    /\ diskApps' = IF saved THEN cfgApps' ELSE diskApps
    /\ IF ~saved /\ rev # "r2"
       THEN Fail("failed to create application")
       ELSE dpc' = "watch" /\ UNCHANGED derr

\* deployDocker, no application yet: CreateDockerImageApp with InstantDeploy: true.
DockerCreateApp ==
    /\ dpc = "app"
    /\ method = "docker"
    /\ ~AppExists
    /\ calls' = Append(calls, "CreateDockerImageApp")
    /\ instant' = "instant"
    /\ \E created \in BOOLEAN, saved \in BOOLEAN :
          IF created THEN AppCreated(saved)
          ELSE /\ Fail("failed to create application")
               /\ UNCHANGED <<dAppUUID, cfgApps, diskApps, nCreated>>
    /\ UNCHANGED <<wvars, method, env, tasks, pushedNew>>
    /\ UNCHANGED <<svars, runs, prev, bvars, cvars, uvars>>

\* The bug: client.Deploy called whatever UpdateApplication returned.
DeployAfterUpdateAlways(updated) == <<"Deploy">>

\* if err != nil { return err } between UpdateApplication and client.Deploy
DeployAfterUpdate(updated) == IF updated THEN <<"Deploy">> ELSE <<>>

\* deployDocker, application exists: UpdateApplication, then Deploy.  r1
\* wraps either error as "failed to deploy", r2 tells them apart.
DockerUpdateAndDeploy ==
    /\ dpc = "app"
    /\ method = "docker"
    /\ AppExists
    /\ dAppUUID' = cfgApps[env]
    /\ \E updated \in BOOLEAN, deployed \in BOOLEAN :
          /\ calls' = calls \o <<"UpdateApplication">> \o DeployAfterUpdate(updated)
          /\ IF updated /\ deployed
             THEN dpc' = "watch" /\ UNCHANGED derr
             ELSE Fail(IF rev = "r1" THEN "failed to deploy"
                       ELSE IF ~updated THEN "failed to update app"
                       ELSE "failed to trigger deploy")
    /\ UNCHANGED <<wvars, method, env, cfgApps, diskApps, tasks, instant, pushedNew>>
    /\ UNCHANGED <<svars, ivars, bvars, cvars, uvars>>

\* deployGit up to git.SetRemote: GitHub user, repository, git init, remote.
GitPrepare ==
    /\ dpc = "prepare"
    /\ rev \in {"r1", "r2"}
    /\ \E ok \in BOOLEAN :
          IF ok THEN dpc' = "gitpush" /\ UNCHANGED derr
          ELSE Fail("failed to set up the repository")
    /\ UNCHANGED <<wvars, method, env, cfgApps, diskApps, tasks, dAppUUID, calls,
                   instant, pushedNew>>
    /\ UNCHANGED <<svars, ivars, bvars, cvars, uvars>>

\* What git push carries: the commits made before this invocation and not
\* yet on the remote (ahead), and the commit of AutoCommit, which is made if
\* the work tree had changes and git add and git commit worked.
CarriesNewCommit(ahead, hadChanges, committed) == ahead \/ (hadChanges /\ committed)

\* deployGit: git.AutoCommit (its error dropped), then git.Push.
GitPush ==
    /\ dpc = "gitpush"
    /\ calls' = Append(calls, "GitPush")
    /\ \E ahead \in BOOLEAN, hadChanges \in BOOLEAN, committed \in BOOLEAN,
          pushed \in BOOLEAN :
          /\ pushedNew' = (pushed /\ CarriesNewCommit(ahead, hadChanges, committed))
          /\ IF pushed THEN dpc' = "ghapps" /\ UNCHANGED derr
             ELSE Fail("failed to push code")
    /\ UNCHANGED <<wvars, method, env, cfgApps, diskApps, tasks, dAppUUID, instant>>
    /\ UNCHANGED <<svars, ivars, bvars, cvars, uvars>>

\* deployGit: ListGitHubApps and the choice of one.
GitHubApps ==
    /\ dpc = "ghapps"
    /\ calls' = Append(calls, "ListGitHubApps")
    /\ \E ok \in BOOLEAN :
          IF ok THEN dpc' = "app" /\ UNCHANGED derr
          ELSE Fail("failed to list GitHub Apps")
    /\ UNCHANGED <<wvars, method, env, cfgApps, diskApps, tasks, dAppUUID,
                   instant, pushedNew>>
    /\ UNCHANGED <<svars, ivars, bvars, cvars, uvars>>

\* deployGit, no application yet: CreatePrivateGitHubApp with InstantDeploy: true.
GitCreateApp ==
    /\ dpc = "app"
    /\ method = "git"
    /\ ~AppExists
    /\ calls' = Append(calls, "CreatePrivateGitHubApp")
    /\ instant' = "instant"
    /\ \E created \in BOOLEAN, saved \in BOOLEAN :
          IF created THEN AppCreated(saved)
          ELSE /\ Fail("failed to create application")
               /\ UNCHANGED <<dAppUUID, cfgApps, diskApps, nCreated>>
    /\ UNCHANGED <<wvars, method, env, tasks, pushedNew>>
    /\ UNCHANGED <<svars, runs, prev, bvars, cvars, uvars>>

\* deployGit, application exists: Deploy.
GitDeployExisting ==
    /\ dpc = "app"
    /\ method = "git"
    /\ AppExists
    /\ dAppUUID' = cfgApps[env]
    /\ calls' = Append(calls, "Deploy")
    /\ \E deployed \in BOOLEAN :
          IF deployed THEN dpc' = "watch" /\ UNCHANGED derr
          ELSE Fail("failed to trigger deployment")
    /\ UNCHANGED <<wvars, method, env, cfgApps, diskApps, tasks, instant, pushedNew>>
    /\ UNCHANGED <<svars, ivars, bvars, cvars, uvars>>

\* buildGitDeploymentTasks: the project, environment, repository and git init
\* tasks (here one task, "setup"), create-app if AppUUID is empty, push-deploy.
BuildGitDeploymentTasks ==
    <<"setup">> \o (IF AppExists THEN <<>> ELSE <<"create-app">>) \o <<"push-deploy">>

\* DeployGit up to buildGitDeploymentTasks: GitHub user, repository questions,
\* GitHub App selection.
DeployGitPrepare ==
    /\ dpc = "prepare"
    /\ rev = "r3"
    /\ \E ok \in BOOLEAN :
          IF ok
          THEN dpc' = "tasks" /\ tasks' = BuildGitDeploymentTasks /\ UNCHANGED derr
          ELSE Fail("failed to connect to GitHub") /\ UNCHANGED tasks
    /\ UNCHANGED <<wvars, method, env, cfgApps, diskApps, dAppUUID, calls,
                   instant, pushedNew>>
    /\ UNCHANGED <<svars, ivars, bvars, cvars, uvars>>

\* ui.RunTasksVerbose went through every task: DeployGit goes on to watch.
AfterTask ==
    /\ tasks' = Tail(tasks)
    /\ dpc' = IF Tail(tasks) = <<>> THEN "watch" ELSE "tasks"
    /\ UNCHANGED derr

\* The tasks before create-app.
SetupTask ==
    /\ dpc = "tasks"
    /\ Head(tasks) = "setup"
    /\ \E ok \in BOOLEAN :
          IF ok THEN AfterTask
          ELSE Fail("setup failed") /\ UNCHANGED tasks
    /\ UNCHANGED <<wvars, method, env, cfgApps, diskApps, dAppUUID, calls,
                   instant, pushedNew>>
    /\ UNCHANGED <<svars, ivars, bvars, cvars, uvars>>

\* createGitAppTask: CreatePrivateGitHubApp with InstantDeploy: false, then
\* SaveProject.
CreateGitAppTask ==
    /\ dpc = "tasks"
    /\ Head(tasks) = "create-app"
    /\ calls' = Append(calls, "CreatePrivateGitHubApp")
    /\ instant' = "plain"
    /\ \E created \in BOOLEAN, saved \in BOOLEAN :
          IF created
          THEN /\ nCreated' = [nCreated EXCEPT !.apps[env] = @ + 1]
               /\ cfgApps' = WithApp(cfgApps, env, NewAppUUID)
               /\ diskApps' = IF saved THEN cfgApps' ELSE diskApps
               /\ IF saved THEN AfterTask
                  ELSE Fail("failed to save") /\ UNCHANGED tasks
          ELSE /\ Fail("failed to create Coolify application")
               /\ UNCHANGED <<cfgApps, diskApps, tasks, nCreated>>
    /\ UNCHANGED <<wvars, method, env, dAppUUID, pushedNew>>
    /\ UNCHANGED <<svars, runs, prev, bvars, cvars, uvars>>

\* pushAndDeployTask: SetRemote, HasChanges, AutoCommitVerbose (its error
\* dropped), PushWithTokenVerbose, and Deploy if there were no changes.
PushAndDeployTask ==
    /\ dpc = "tasks"
    /\ Head(tasks) = "push-deploy"
    /\ \E remoteSet \in BOOLEAN, ahead \in BOOLEAN, hadChanges \in BOOLEAN,
          committed \in BOOLEAN, pushed \in BOOLEAN, deployed \in BOOLEAN :
          /\ calls' = calls
                        \o (IF remoteSet THEN <<"GitPush">> ELSE <<>>)
                        \o (IF remoteSet /\ pushed /\ ~hadChanges
                            THEN <<"Deploy">> ELSE <<>>)
          /\ pushedNew' = (/\ remoteSet
                            /\ pushed
                            /\ CarriesNewCommit(ahead, hadChanges, committed))
          /\ IF ~remoteSet
             THEN Fail("failed to configure git remote") /\ UNCHANGED tasks
             ELSE IF ~pushed
             THEN Fail("failed to push") /\ UNCHANGED tasks
             ELSE IF ~hadChanges /\ ~deployed
             THEN Fail("failed to trigger deployment") /\ UNCHANGED tasks
             ELSE AfterTask
    /\ UNCHANGED <<wvars, method, env, cfgApps, diskApps, dAppUUID, instant>>
    /\ UNCHANGED <<svars, ivars, bvars, cvars, uvars>>

\* success := watchDeployment(client, appUUID), up to the loop.  r3 passes
\* projectCfg.AppUUID.
CallWatcher ==
    /\ dpc = "watch"
    /\ dpc' = "watching"
    /\ wpc' = "polling"
    /\ appUUID' = IF rev = "r3" THEN cfgApps[env] ELSE dAppUUID
    /\ UNCHANGED <<rev, attempt, lastLogLen, lastDeploymentUUID, hadDeployment,
                   emptyCount, verdict, msg, out, polls, cycle, clean, seen, hist>>
    /\ UNCHANGED <<method, env, cfgApps, diskApps, tasks, dAppUUID, calls,
                   instant, pushedNew, derr>>
    /\ UNCHANGED <<svars, ivars, bvars, cvars, uvars>>

\* The watcher returns its verdict (the loop itself is what Spec explores)
\* and the dispatcher reports it: if !success, "deployment failed".
WatcherReturns ==
    /\ dpc = "watching"
    /\ \E success \in BOOLEAN :
          /\ wpc' = "returned"
          /\ verdict' = success
          /\ derr' = IF success THEN "" ELSE "deployment failed"
    /\ dpc' = "done"
    /\ UNCHANGED <<rev, appUUID, attempt, lastLogLen, lastDeploymentUUID,
                   hadDeployment, emptyCount, msg, out, polls, cycle, clean, seen,
                   hist>>
    /\ UNCHANGED <<method, env, cfgApps, diskApps, tasks, dAppUUID, calls,
                   instant, pushedNew>>
    /\ UNCHANGED <<svars, ivars, bvars, cvars, uvars>>

\* The deploy command is run again: runDeploy loads the project config
\* config.SaveProject last wrote, and with none firstTimeSetup runs.
RunAgain ==
    /\ dpc = "done"
    /\ runs < MaxRuns
    /\ runs' = runs + 1
    /\ prev' = [env |-> env, err |-> derr, apps |-> diskApps, project |-> diskProject,
                had |-> spc = "none"]
    /\ \E e \in Envs :
          /\ rev = "r3" => e = "production"
          /\ env' = e
    /\ cfgApps' = diskApps
    /\ cfgProject' = diskProject
    /\ dpc' = IF diskProject = NoConfig THEN "setup" ELSE DispatchEntry(method)
    /\ spc' = IF diskProject = NoConfig THEN "start" ELSE "none"
    /\ newProject' = FALSE
    /\ projectUUID' = ""
    /\ previewEnvUUID' = ""
    /\ prodEnvUUID' = ""
    /\ scalls' = <<>>
    /\ tasks' = <<>>
    /\ dAppUUID' = ""
    /\ calls' = <<>>
    /\ instant' = "none"
    /\ pushedNew' = FALSE
    /\ derr' = ""
    /\ wpc' = "idle"
    /\ appUUID' = ""
    /\ verdict' = FALSE
    /\ UNCHANGED <<rev, attempt, lastLogLen, lastDeploymentUUID, hadDeployment,
                   emptyCount, msg, out, polls, cycle, clean, seen, hist>>
    /\ UNCHANGED <<method, diskApps, diskProject, remoteEnvs, nCreated, bvars, cvars, uvars>>

NextDispatch ==
    \/ SetupStart
    \/ CreateNewProject
    \/ EnsurePreview
    \/ EnsureProduction
    \/ SetupSave
    \/ RunAgain
    \/ DockerBuild
    \/ DockerPush
    \/ DockerCreateApp
    \/ DockerUpdateAndDeploy
    \/ GitPrepare
    \/ GitPush
    \/ GitHubApps
    \/ GitCreateApp
    \/ GitDeployExisting
    \/ DeployGitPrepare
    \/ SetupTask
    \/ CreateGitAppTask
    \/ PushAndDeployTask
    \/ CallWatcher
    \/ WatcherReturns

SpecDispatch == InitDispatch /\ [][NextDispatch]_vars

\* -------------------------------------------------------------- ui.Spinner

\* The UpdateMessage and Complete calls made on one Spinner.
MaxCalls == 2

\* The Stop calls made on one Spinner.
MaxStops == 2

\* len(spinnerFrames)
NumFrames == 10

\* The messages the caller shows.
Messages == {"", "building"}

\* Only a Spinner is in use.
OnlySpinner ==
    /\ WatcherIdle("none")
    /\ NoDispatcher
    /\ NoSetup
    /\ FirstRun
    /\ NoBuild
    /\ NoRequest

\* The caller holds the Spinner NewSpinner returned.
InitSpinner ==
    /\ OnlySpinner
    /\ ppc = "ready"
    /\ NewSpinner

\* The goroutine of Start exists and has not returned.
Live == gpc \notin {"none", "exited"}

\* The caller assigns W[f] to every field f of W without holding a lock.  A
\* goroutine that runs may from now on read the old or the new value, and
\* the write is concurrent with every read the goroutine made of the field.
Assign(W) ==
    /\ visible' = [f \in DOMAIN visible |->
                      IF f \notin DOMAIN W THEN visible[f]
                      ELSE IF Live THEN visible[f] \cup {W[f]}
                      ELSE {W[f]}]
    /\ unsynced' = (IF Live THEN unsynced \cup DOMAIN W ELSE unsynced)
    /\ races' = races \cup (IF Live THEN DOMAIN W \cap gtouched ELSE {})

\* The goroutine reads the fields of R without holding a lock.
Load(R) ==
    /\ gtouched' = gtouched \cup R
    /\ races' = races \cup (R \cap unsynced)

\* func (s *Spinner) Start(): the go statement orders what the caller wrote
\* so far before the goroutine.
Start ==
    /\ ppc = "ready"
    /\ ticker = "nil"
    /\ running' = TRUE
    /\ ticker' = "active"
    /\ gpc' = "loop"
    /\ visible' = [running |-> {TRUE}, message |-> {message}]
    /\ unsynced' = {}
    /\ UNCHANGED <<ppc, message, frame, lines, tickerC, gtouched, races, shown,
                   nCalls, stops>>
    /\ UNCHANGED <<wvars, dvars, svars, ivars, bvars, cvars>>

\* The ticker sends a tick: to the goroutine if it waits in the select, else
\* into the buffer of s.ticker.C.
Tick ==
    /\ ticker = "active"
    /\ tickerC = 0
    /\ IF gpc = "parked"
       THEN gpc' = "tick" /\ UNCHANGED tickerC
       ELSE tickerC' = 1 /\ UNCHANGED gpc
    /\ UNCHANGED <<ppc, running, message, frame, lines, ticker, visible, unsynced,
                   gtouched, races, shown, nCalls, stops>>
    /\ UNCHANGED <<wvars, dvars, svars, ivars, bvars, cvars>>

\* The goroutine reaches the select.  No sender waits on s.done (Stop sends
\* without blocking), so it takes a buffered tick or goes to sleep.
GoSelect ==
    /\ gpc = "loop"
    /\ IF tickerC = 1
       THEN gpc' = "tick" /\ tickerC' = 0
       ELSE gpc' = "parked" /\ UNCHANGED tickerC
    /\ UNCHANGED <<ppc, running, message, frame, lines, ticker, visible, unsynced,
                   gtouched, races, shown, nCalls, stops>>
    /\ UNCHANGED <<wvars, dvars, svars, ivars, bvars, cvars>>

\* case <-s.ticker.C: if s.running && s.message != "" the next frame is
\* printed.
GoFrame ==
    /\ gpc = "tick"
    /\ gpc' = "loop"
    /\ \E r \in visible.running :
          IF r
          THEN \E m \in visible.message :
                  /\ Load({"running", "message"})
                  /\ IF m # ""
                     THEN frame' = (frame + 1) % NumFrames /\ shown' = m
                     ELSE UNCHANGED <<frame, shown>>
          ELSE Load({"running"}) /\ UNCHANGED <<frame, shown>>
    /\ UNCHANGED <<ppc, running, message, lines, ticker, tickerC, visible,
                   unsynced, nCalls, stops>>
    /\ UNCHANGED <<wvars, dvars, svars, ivars, bvars, cvars>>

\* func (s *Spinner) UpdateMessage(msg string)
UpdateMessage ==
    /\ ppc = "ready"
    /\ nCalls < MaxCalls
    /\ nCalls' = nCalls + 1
    /\ \E m \in Messages :
          /\ message' = m
          /\ Assign([f \in {"message"} |-> m])
    /\ UNCHANGED <<ppc, gpc, running, frame, lines, ticker, tickerC, gtouched,
                   shown, stops>>
    /\ UNCHANGED <<wvars, dvars, svars, ivars, bvars, cvars>>

\* func (s *Spinner) Complete(msg string) up to time.Sleep.
Complete ==
    /\ ppc = "ready"
    /\ nCalls < MaxCalls
    /\ nCalls' = nCalls + 1
    /\ IF running
       THEN /\ running' = FALSE
            /\ Assign([f \in {"running"} |-> FALSE])
            /\ ppc' = "completing"
       ELSE UNCHANGED <<running, visible, unsynced, races, ppc>>
    /\ UNCHANGED <<gpc, message, frame, lines, ticker, tickerC, gtouched, shown,
                   stops>>
    /\ UNCHANGED <<wvars, dvars, svars, ivars, bvars, cvars>>

\* Complete after the sleep: the line is printed and kept, the message
\* cleared, running set again.
CompleteResume ==
    /\ ppc = "completing"
    /\ ppc' = "ready"
    /\ lines' = lines + 1
    /\ message' = ""
    /\ running' = TRUE
    /\ Assign([f \in {"running", "message"} |->
                  IF f = "running" THEN TRUE ELSE ""])
    /\ UNCHANGED <<gpc, frame, ticker, tickerC, gtouched, shown, nCalls, stops>>
    /\ UNCHANGED <<wvars, dvars, svars, ivars, bvars, cvars>>

\* func (s *Spinner) Stop() up to the select: nothing at all unless
\* s.running.
Stop ==
    /\ ppc = "ready"
    /\ ticker # "nil"
    /\ stops < MaxStops
    /\ IF running
       THEN /\ running' = FALSE
            /\ Assign([f \in {"running"} |-> FALSE])
            /\ ticker' = "stopped"
            /\ ppc' = "stopping"
            /\ UNCHANGED stops
       ELSE /\ stops' = stops + 1
            /\ UNCHANGED <<running, visible, unsynced, races, ticker, ppc>>
    /\ UNCHANGED <<gpc, message, frame, lines, tickerC, gtouched, shown, nCalls>>
    /\ UNCHANGED <<wvars, dvars, svars, ivars, bvars, cvars>>

\* select { case s.done <- true: default: }: the send on the unbuffered
\* channel is taken only if the goroutine waits in its select, and then the
\* goroutine returns; else the default case runs and nothing is sent.
StopSignal ==
    /\ ppc = "stopping"
    /\ ppc' = "clearing"
    /\ gpc' = (IF gpc = "parked" THEN "exited" ELSE gpc)
    /\ UNCHANGED <<running, message, frame, lines, ticker, tickerC, visible,
                   unsynced, gtouched, races, shown, nCalls, stops>>
    /\ UNCHANGED <<wvars, dvars, svars, ivars, bvars, cvars>>

\* Stop from the select to its return: the line is cleared if there is a
\* message.
StopClear ==
    /\ ppc = "clearing"
    /\ ppc' = "ready"
    /\ stops' = stops + 1
    /\ shown' = (IF message # "" THEN "" ELSE shown)
    /\ UNCHANGED <<gpc, running, message, frame, lines, ticker, tickerC, visible,
                   unsynced, gtouched, races, nCalls>>
    /\ UNCHANGED <<wvars, dvars, svars, ivars, bvars, cvars>>

NextSpinner ==
    \/ Start
    \/ Tick
    \/ GoSelect
    \/ GoFrame
    \/ UpdateMessage
    \/ Complete
    \/ CompleteResume
    \/ Stop
    \/ StopSignal
    \/ StopClear

\* The goroutine is scheduled, the ticker ticks while it is active, and a
\* call the caller began runs to its return.
SpecSpinner ==
    /\ InitSpinner
    /\ [][NextSpinner]_vars
    /\ WF_vars(GoSelect)
    /\ WF_vars(GoFrame)
    /\ WF_vars(Tick)
    /\ WF_vars(CompleteResume)
    /\ WF_vars(StopSignal)
    /\ WF_vars(StopClear)

\* ------------------------------------------------------------- the claims

Returned == wpc = "returned"

Polling == wpc = "polling"

\* The terminal statuses as the spec lists them, compared without case.
Finished(status) == ToLower(status) = "finished"

Failed(status) == ToLower(status) \in {"failed", "error", "cancelled"}

NonTerminal(status) == ~Finished(status) /\ ~Failed(status)

DetailFetched == cycle.detail \notin {"NONE", "ERR"}

ListItemSeen == cycle.list \notin {"NONE", "ERR", "EMPTY"}

AppFetched == cycle.app \notin {"NONE", "ERR"}

\* The log text printed, without the newlines Println added.
LogChars(printed) == SelectSeq(printed, LAMBDA c : c # EOL)

\* C1: the watcher always ends with a verdict.  Every iteration returns or
\* adds exactly one to attempt (and is one more ListDeployments call), the
\* number of ListDeployments calls never passes 120, and while the watcher is
\* in the loop it can always take a step: with attempts left an iteration,
\* without the final return.
C1_BoundedPolling ==
    /\ [](/\ polls <= maxAttempts
          /\ attempt <= maxAttempts
          /\ Polling => /\ polls = attempt
                        /\ ENABLED (PollListError \/ TimedOut))
    /\ [][Polling =>
            /\ polls' <= polls + 1
            /\ \/ wpc' = "returned" /\ attempt' = attempt
               \/ wpc' = "polling" /\ attempt' = attempt + 1 /\ polls' = polls + 1]_vars

\* The attempts were used up by 120 polls and the watcher returned false.
C1_Witness ==
    /\ Returned
    /\ polls = maxAttempts
    /\ attempt = maxAttempts
    /\ ~verdict

\* C2: a cycle whose detail status is not terminal and whose list status is
\* failed, error or cancelled does not end the watcher with failure.
C2_DetailNonTerminalWins ==
    (/\ DetailFetched
     /\ NonTerminal(cycle.detail)
     /\ ListItemSeen
     /\ Failed(cycle.list))
        => ~(Returned /\ ~verdict)

\* C3: a cycle that fetched a terminal detail status is the last one, and its
\* verdict is the detail status's: finished is success, failed, error and
\* cancelled are failure, whatever the list item says.
C3_TerminalDetailDecides ==
    DetailFetched =>
        /\ Finished(cycle.detail) => Returned /\ verdict
        /\ Failed(cycle.detail) => Returned /\ ~verdict

\* Detail failed, list running: failure.
C3_Witness ==
    /\ Returned
    /\ cycle.detail = "failed"
    /\ cycle.list = "running"
    /\ ~verdict

C5_LogPrintedOnce ==
    /\ LogChars(out) = Blob(seen)
    /\ lastLogLen = seen

\* A failed detail fetch after the first range was printed, log not yet whole.
C5_Witness ==
    /\ Polling
    /\ cycle.detail = "ERR"
    /\ out = <<"a", EOL>>
    /\ lastLogLen = 1

\* C6: with no deployment ever seen and an empty list on each of the first 15
\* polls, the watcher has returned failure at the 15th.
C6_FailureAtFifteenthEmptyPoll ==
    (~hadDeployment /\ polls = NoDeploymentAttempts /\ emptyCount = NoDeploymentAttempts)
        => Returned /\ ~verdict

\* C7: once a deployment was seen, the third empty list in a row makes the
\* watcher read the application status and return: failure for exited, error
\* and failed, success for running.  It is not read before, and a non-empty
\* list sets the streak back to zero.
C7_ThirdEmptyPollDecides ==
    /\ (hadDeployment /\ emptyCount >= EmptyThreshold) =>
            /\ Returned
            /\ emptyCount = EmptyThreshold
            /\ cycle.app # "NONE"
            /\ ToLower(cycle.app) \in {"exited", "error", "failed"} => ~verdict
            /\ ToLower(cycle.app) = "running" => verdict
    /\ cycle.app # "NONE" => hadDeployment /\ emptyCount = EmptyThreshold
    /\ ListItemSeen => emptyCount = 0

\* [1 item: running], [], [], [] with the application exited: failure.
C7_Witness ==
    /\ Returned
    /\ ~verdict
    /\ polls = 4
    /\ hadDeployment
    /\ emptyCount = EmptyThreshold
    /\ cycle.app = "exited"

\* The application status is read and says neither success nor failure.
Ambiguous ==
    /\ AppFetched
    /\ ToLower(cycle.app) \notin {"running", "exited", "error", "failed"}

\* C8 as stated: an ambiguous application status gives no verdict in that
\* cycle, the watcher keeps polling.
C8_AmbiguousKeepsPolling == Ambiguous => Polling

\* C8 as amended: an ambiguous application status ends the watcher with
\* success in that cycle.
C8_AmbiguousIsSuccess == Ambiguous => Returned /\ verdict

\* The application is starting when the streak reaches the threshold.
C8_Witness ==
    /\ Returned
    /\ verdict
    /\ cycle.app = "starting"
    /\ emptyCount = EmptyThreshold

\* The dispatcher has called the watcher.
WatcherCalled == wpc # "idle"

CreateCalls == {"CreateDockerImageApp", "CreatePrivateGitHubApp"}

\* The number of client.Deploy calls of this invocation.
DeployCalls == Cardinality({i \in DOMAIN calls : calls[i] = "Deploy"})

\* C9: a dispatcher invocation that reached the watcher has made exactly one
\* client.Deploy call.
C9_ExactlyOneDeployCall == WatcherCalled => DeployCalls = 1

\* C10: the application is created with InstantDeploy off; when the watcher
\* is called after a create, a Deploy call was made after the create call;
\* and the watcher is called with the UUID the config holds for env, which a
\* successful create returned or the saved config held.
C10_CreateThenExplicitDeploy ==
    /\ instant # "none" => instant = "plain"
    /\ WatcherCalled =>
          /\ \A i \in DOMAIN calls :
                calls[i] \in CreateCalls =>
                    \E j \in DOMAIN calls : j > i /\ calls[j] = "Deploy"
          /\ AppExists
          /\ appUUID = cfgApps[env]
          /\ appUUID \in {SavedAppUUID, NewAppUUID}

\* C11: over all invocations at most one application-create call succeeds
\* for an environment key of the config.
C11_AtMostOneCreatePerKey == \A e \in Envs : nCreated.apps[e] <= 1

\* The CreateEnvironment calls of this invocation for a name, and those among
\* them answered with 409.
CreateAttempts(name) ==
    {i \in DOMAIN scalls : scalls[i].op = "CreateEnvironment" /\ scalls[i].name = name}

Conflicted(name) == \E i \in CreateAttempts(name) : scalls[i].code = 409

\* C12: when CreateEnvironment for a name was answered with 409, the setup
\* has the UUID of the remote environment of that name, which is not empty,
\* has not returned the error of that create, and has called
\* CreateEnvironment for the name once.
C12_ConflictConverges ==
    \A name \in Envs :
        Conflicted(name) =>
            /\ LocalEnv(name) # ""
            /\ LocalEnv(name) = remoteEnvs[name]
            /\ derr # "failed to create " \o name \o " environment"
            /\ Cardinality(CreateAttempts(name)) = 1

\* A create call of this invocation's setup succeeded.
Succeeded(op, name) ==
    \E i \in DOMAIN scalls :
        scalls[i].op = op /\ scalls[i].name = name /\ scalls[i].code = 200

\* C13: once CreateProject or CreateEnvironment has succeeded, the saved
\* config holds the UUID it returned.
C13_SavedAfterEachCreate ==
    /\ Succeeded("CreateProject", "") =>
            /\ projectUUID # ""
            /\ diskProject.ProjectUUID = projectUUID
    /\ Succeeded("CreateEnvironment", "preview") =>
            /\ previewEnvUUID # ""
            /\ diskProject.PreviewEnvUUID = previewEnvUUID
    /\ Succeeded("CreateEnvironment", "production") =>
            /\ prodEnvUUID # ""
            /\ diskProject.ProdEnvUUID = prodEnvUUID

\* Two invocations in a row for the same environment, the first begun with a
\* saved config, both ended without error.
RanTwice ==
    /\ runs >= 2
    /\ prev.had
    /\ prev.env = env
    /\ prev.err = ""
    /\ dpc = "done"
    /\ derr = ""

\* C14: after two such invocations the second has made no call of the setup
\* (no CreateProject, no CreateEnvironment) and the saved project,
\* environment and application UUIDs are those saved after the first.
C14_IdempotentResolver ==
    RanTwice =>
        /\ scalls = <<>>
        /\ diskProject = prev.project
        /\ diskApps = prev.apps

\* s is the beginning of t.
IsPrefix(s, t) == Len(s) <= Len(t) /\ s = SubSeq(t, 1, Len(s))

DockerCreateOrder == <<"Build", "Push", "CreateDockerImageApp">>

DockerUpdateOrder == <<"Build", "Push", "UpdateApplication", "Deploy">>

\* The dispatcher returned the error of one of its steps.
StepFailed == dpc = "done" /\ derr \notin {"", "deployment failed"}

\* C15: in the Docker path the calls are made in the order build, push,
\* create or update and deploy; after a failed build there is no push, after
\* a failed update no Deploy, and after any failed step no watcher; the
\* watcher is called after all the calls of one of the two orders; and an
\* application UUID on disk stays there, whatever fails later.
C15_DockerStepsInOrder ==
    /\ [](method = "docker" =>
            /\ IsPrefix(calls, DockerCreateOrder) \/ IsPrefix(calls, DockerUpdateOrder)
            /\ derr = "build failed" => calls = <<"Build">>
            /\ derr = "push failed" => calls = <<"Build", "Push">>
            /\ derr = "failed to update app" =>
                    calls = <<"Build", "Push", "UpdateApplication">>
            /\ derr = "failed to trigger deploy" => calls = DockerUpdateOrder
            /\ StepFailed => ~WatcherCalled
            /\ WatcherCalled => calls \in {DockerCreateOrder, DockerUpdateOrder})
    /\ [][\A e \in DOMAIN diskApps :
              e \in DOMAIN diskApps' /\ diskApps'[e] = diskApps[e]]_vars

\* The application was created and saved, then the watcher said failure.
C15_Witness ==
    /\ method = "docker"
    /\ dpc = "done"
    /\ derr = "deployment failed"
    /\ calls = DockerCreateOrder
    /\ env \in DOMAIN diskApps
    /\ diskApps[env] = NewAppUUID

\* C16: in DeployGit a failed push is followed by no Deploy call, and when
\* the push worked and the watcher is reached, Deploy was called once if the
\* push carried no new commit and not at all if it carried one.
C16_DeployIffNoNewCommit ==
    (rev = "r3" /\ method = "git") =>
        /\ derr = "failed to push" => DeployCalls = 0
        /\ (dpc = "watch" \/ WatcherCalled) =>
                DeployCalls = (IF pushedNew THEN 0 ELSE 1)

\* Every ListDeployments call so far failed: no deployment was seen and no
\* empty list counted.
OnlyListErrors ==
    /\ polls > 0
    /\ cycle.list = "ERR"
    /\ ~hadDeployment
    /\ emptyCount = 0

\* C17: a run of consecutive ListDeployments errors makes the watcher give
\* up before the attempts are used up: whatever the small budget is, after
\* 119 failed calls in a row the watcher has returned.
C17_GivesUpOnErrorStreak ==
    (OnlyListErrors /\ polls = maxAttempts - 1) => Returned

\* The watcher returned because the attempts were used up.
TimeoutReturn == Returned /\ attempt = maxAttempts

\* C18: the result at timeout is not the result of an explicit failed
\* status, which is false.
C18_TimeoutDistinctFromFailure == TimeoutReturn => verdict # FALSE

\* request has returned.
RequestDone == cpc = "done"

\* A response was received whole: its status line and its body.
ResponseRead == cresp.transport = "ok" /\ cresp.read

\* C20: a response of status 400 or more, once read, comes back as an
\* APIError with that status code and the body as received; IsConflict holds
\* of the returned error exactly when a response of status 409 was read and
\* IsNotFound exactly when one of status 404 was; for every error that is no
\* response (marshalling, URL, transport, a body that cannot be read) and for
\* every parse error both are false.
C20_ErrorStatusIsAPIError ==
    RequestDone =>
        /\ (ResponseRead /\ cresp.StatusCode >= 400) =>
                /\ cerr.kind = "api"
                /\ cerr.StatusCode = cresp.StatusCode
                /\ cerr.Message = cresp.body
        /\ IsConflict(cerr) <=> (ResponseRead /\ cresp.StatusCode = 409)
        /\ IsNotFound(cerr) <=> (ResponseRead /\ cresp.StatusCode = 404)
        /\ ~ResponseRead => (cerr.kind = "wrapped" /\ ~IsConflict(cerr) /\ ~IsNotFound(cerr))
        /\ cerr.kind = "api" => (ResponseRead /\ cresp.StatusCode >= 400)

\* A 409 with a body was read and came back as a conflict.
C20_Witness ==
    /\ RequestDone
    /\ cresp.StatusCode = 409
    /\ cresp.body = "<html>"
    /\ cerr = [kind |-> "api", StatusCode |-> 409, Message |-> "<html>"]
    /\ IsConflict(cerr)
    /\ ~IsNotFound(cerr)

\* Build has returned or panicked.
BuildDone == bpc = "done"

\* Build wrote the whole of the generated Dockerfile.cdp.
Synthesized == tempDockerfile

\* C19: Build writes Dockerfile.cdp only in a directory without a Dockerfile;
\* once it wrote it whole, the file is gone when Build has returned nil,
\* returned the build error or panicked; and the Dockerfile of the directory
\* is never written or removed: it is as it was and Build touched at most
\* Dockerfile.cdp.
C19_SynthesizedFileRemoved ==
    /\ [](/\ "Dockerfile.cdp" \in touched => files["Dockerfile"] = ""
          /\ Synthesized => files["Dockerfile"] = ""
          /\ (BuildDone /\ Synthesized) => files["Dockerfile.cdp"] = ""
          /\ touched \subseteq {"Dockerfile.cdp"})
    /\ [][files'["Dockerfile"] = files["Dockerfile"]]_vars

\* The call panicked after the file was written, and the file is gone.
C19_Witness ==
    /\ BuildDone
    /\ berr = "panic"
    /\ Synthesized
    /\ dockerArgs = <<"--platform", DefaultPlatform, "-f", "Dockerfile.cdp">>
    /\ files = NoFiles

\* The step is one iteration in which ListDeployments returned deployments.
NonEmptyPoll == Polling /\ polls' # polls /\ cycle'.item # <<>>

\* The canonical UUID of a list item <<UUID, DeploymentUUID>> as the spec
\* gives it: the deployment UUID when there is one.
Preferred(item) == IF item[2] # "" THEN item[2] ELSE item[1]

\* The log offset the detail is compared with in a non-empty poll that tracks
\* canonical: zero for a deployment other than the one tracked before.
OffsetFor(canonical) == IF canonical # lastDeploymentUUID THEN 0 ELSE lastLogLen

\* C21: a non-empty poll tracks list item 0 under its canonical UUID (the
\* DeploymentUUID when non-empty, else the UUID) and calls GetDeployment with
\* it; the log offset the fetched logs are compared with is zero exactly when
\* that UUID differs from the one tracked by the previous non-empty poll and
\* is the old offset when it is the same; polls without a list item leave
\* the tracked UUID alone.
C21_TracksCanonicalUUID ==
    [][/\ NonEmptyPoll =>
            LET canonical == Preferred(cycle'.item)
                offset == OffsetFor(canonical)
            IN  /\ lastDeploymentUUID' = canonical
                /\ cycle'.ops[2] = <<"GetDeployment", canonical>>
                /\ cycle'.reset <=> canonical # lastDeploymentUUID
                /\ cycle'.detail = "ERR" => lastLogLen' = offset
                /\ cycle'.detail # "ERR" =>
                       lastLogLen' = IF cycle'.len > offset THEN cycle'.len
                                     ELSE offset
       /\ (Polling /\ cycle'.item = <<>>) =>
              lastDeploymentUUID' = lastDeploymentUUID]_vars

\* A later poll found another deployment on top of the list: it is tracked
\* under its deployment UUID and its one-character log was printed from
\* offset zero.
C21_Witness ==
    /\ Polling
    /\ polls >= 2
    /\ cycle.item = <<"u1", "d1">>
    /\ cycle.reset
    /\ lastDeploymentUUID = "d1"
    /\ cycle.ops[2] = <<"GetDeployment", "d1">>
    /\ cycle.len = 1
    /\ lastLogLen = 1
    /\ out = <<"a", EOL>>

\* The last cycle called GetDeployment and got an error.
DetailErrored == cycle.detail = "ERR"

\* C22: a cycle whose GetDeployment call failed is classified by the status of
\* the latest list item: "finished" returns true, "failed", "error" and
\* "cancelled" return false, and with any other status the watcher polls on
\* (it returns only when the attempts are used up); the failed call prints
\* nothing and leaves the log offset as it was, at zero if the cycle began to
\* track another deployment.
C22_DetailErrorFallsBackToList ==
    /\ [](DetailErrored =>
            /\ Finished(cycle.list) => Returned /\ verdict
            /\ Failed(cycle.list) => Returned /\ ~verdict
            /\ NonTerminal(cycle.list) =>
                   \/ Polling
                   \/ Returned /\ ~verdict /\ attempt = maxAttempts)
    /\ [][(NonEmptyPoll /\ cycle'.detail = "ERR") =>
            /\ lastLogLen' = (IF cycle'.reset THEN 0 ELSE lastLogLen)
            /\ out' = (IF cycle'.reset THEN <<>> ELSE out)
            /\ wpc' = "polling" <=> NonTerminal(cycle'.list)]_vars

\* The detail of the tracked deployment could not be fetched after its log
\* was printed, the list says it finished: true is returned and the offset
\* is still two.
C22_Witness ==
    /\ Returned
    /\ verdict
    /\ DetailErrored
    /\ cycle.list = "finished"
    /\ ~cycle.reset
    /\ lastLogLen = 2
    /\ out = <<"a", "\n">>

\* The client methods that only read the control plane.
ReadCalls == {"ListDeployments", "GetDeployment", "GetApplication"}

\* C23: every client call of a watcher iteration is a read, each iteration
\* begins with ListDeployments, ListDeployments and GetApplication are called
\* with the application UUID the watcher was given, and an iteration changes
\* neither that UUID nor the project config, in memory or on disk.
C23_WatcherOnlyReads ==
    [][Polling =>
        /\ polls' # polls =>
              /\ Len(cycle'.ops) >= 1
              /\ cycle'.ops[1] = <<"ListDeployments", appUUID>>
              /\ \A i \in DOMAIN cycle'.ops :
                    /\ cycle'.ops[i][1] \in ReadCalls
                    /\ cycle'.ops[i][1] # "GetDeployment" =>
                           cycle'.ops[i][2] = appUUID
        /\ UNCHANGED <<appUUID, cfgApps, diskApps, cfgProject, diskProject,
                       calls, scalls, nCreated>>]_vars

\* The second revision saw the detail status "finished": it has read the
\* list, the detail and the application, all for the one application.
C23_Witness ==
    /\ Returned
    /\ rev = "r2"
    /\ appUUID = "app1"
    /\ cycle.detail = "finished"
    /\ cycle.ops = <<<<"ListDeployments", "app1">>, <<"GetDeployment", "d1">>,
                     <<"GetApplication", "app1">>>>
    /\ cfgApps = diskApps

\* The step is one iteration in which ListDeployments returned an error.
ListErrorPoll == Polling /\ polls' # polls /\ cycle'.list = "ERR"

\* C25: an iteration whose ListDeployments call fails adds one to attempt and
\* changes nothing else of the watcher: hadDeployment, emptyCount, the
\* tracked UUID, the log offset and the printed text stay, no other call is
\* made and the watcher stays in the loop, so the run of empty lists counted
\* before the error is the run counted after it.
C25_ListErrorCostsOneAttempt ==
    [][ListErrorPoll =>
        /\ attempt' = attempt + 1
        /\ polls' = polls + 1
        /\ wpc' = "polling"
        /\ cycle'.ops = <<<<"ListDeployments", appUUID>>>>
        /\ UNCHANGED <<hadDeployment, emptyCount, lastDeploymentUUID,
                       lastLogLen, out, verdict, msg, hist>>]_vars

\* Two empty lists after a deployment, then a failed ListDeployments call:
\* the streak still stands at two.
C25_Witness ==
    /\ Polling
    /\ cycle.list = "ERR"
    /\ hadDeployment
    /\ emptyCount = 2
    /\ hist.emptyRun = 2
    /\ lastDeploymentUUID = "d1"
    /\ lastLogLen = 2
    /\ attempt = 4

\* The watcher returned from the empty-list branch without asking for the
\* application: the "no deployment found" exit.
NoDeploymentFoundReturn ==
    /\ Returned
    /\ cycle.list = "EMPTY"
    /\ cycle.app = "NONE"
    /\ attempt < maxAttempts

\* The last cycle called GetApplication in the empty-list branch.
AppStatusFallback == cycle.list = "EMPTY" /\ cycle.app # "NONE"

\* C26: hadDeployment says that some ListDeployments call returned a
\* non-empty list and never goes back to false; the "no deployment found"
\* exit is taken only when no call so far returned a non-empty list, and the
\* application is asked in the empty-list branch only when some earlier call
\* did and the last three calls that returned a list all returned an empty
\* one.
C26_EmptyExitsGatedByHadDeployment ==
    /\ [](/\ hadDeployment <=> hist.everListed
          /\ NoDeploymentFoundReturn => ~hist.everListed /\ ~verdict
          /\ AppStatusFallback => /\ hist.everListed
                                  /\ hist.emptyRun = 3
                                  /\ Returned
          /\ cycle.list # "EMPTY" => cycle.app = "NONE")
    /\ [][hadDeployment => hadDeployment']_vars

\* A deployment was seen, then three empty lists with a failed call between
\* them: the application was asked and found running.
C26_Witness ==
    /\ Returned
    /\ AppStatusFallback
    /\ cycle.app = "running"
    /\ hadDeployment
    /\ hist.emptyRun = 3
    /\ attempt = 4
    /\ polls = 5
    /\ verdict

\* The GetApplication call of the empty-list branch failed.
AppCheckFailed == cycle.list = "EMPTY" /\ cycle.app = "ERR"

\* C27: when a deployment was seen, the list was then empty three times in a
\* row and the GetApplication call fails, the watcher returns true in that
\* cycle (the second revision with the line "could not verify status");
\* false is never returned on that path.
C27_UnverifiableIsSuccess ==
    AppCheckFailed =>
        /\ Returned
        /\ verdict
        /\ hadDeployment
        /\ emptyCount = 3
        /\ rev = "r2" => msg = "Deployment finished (could not verify status)"

\* The first revision returned true after a deployment, three empty lists
\* and a failed GetApplication call.
C27_Witness ==
    /\ AppCheckFailed
    /\ Returned
    /\ verdict
    /\ rev = "r1"
    /\ hist.everListed
    /\ hist.emptyRun = 3
    /\ lastDeploymentUUID = "u1"

\* The step is one iteration in which ListDeployments returned an empty list
\* and no call before it returned a non-empty one.
EmptyPollNeverListed ==
    Polling /\ polls' # polls /\ cycle'.list = "EMPTY" /\ ~hist.everListed

\* C28: with no deployment seen so far, an empty list makes the watcher
\* return false exactly when the attempt counter has reached 15 and otherwise
\* costs one attempt; the counter also counts the iterations that ended in a
\* ListDeployments error, so the failure can come with fewer than 15 empty
\* lists.
C28_GiveUpCountsAttempts ==
    [][EmptyPollNeverListed =>
        IF attempt >= 15
        THEN wpc' = "returned" /\ ~verdict' /\ attempt' = attempt
        ELSE wpc' = "polling" /\ attempt' = attempt + 1]_vars

\* Fifteen failed ListDeployments calls and then the first empty list: "no
\* deployment found" after a single empty poll.
C28_Witness ==
    /\ NoDeploymentFoundReturn
    /\ ~verdict
    /\ ~hadDeployment
    /\ attempt = 15
    /\ polls = 16
    /\ emptyCount = 1
    /\ hist.emptyRun = 1

\* The step is one iteration in which GetDeployment returned the detail.
DetailPoll == NonEmptyPoll /\ cycle'.detail # "ERR"

\* C29: the log offset is never negative and is the number of characters of
\* the blob last printed for the tracked deployment (zero when none was);
\* parsedLogs[lastLogLen:] is taken only from a blob longer than the offset,
\* so the slice is in range and prints len - offset characters; a blob that
\* is not longer prints nothing and leaves the offset, which therefore never
\* goes down while the same deployment is tracked.
C29_LogOffsetInRange ==
    /\ [](/\ lastLogLen \in 0..seen
          /\ lastLogLen = Len(LogChars(out)))
    /\ [][DetailPoll =>
            LET offset == OffsetFor(Preferred(cycle'.item))
                before == IF cycle'.reset THEN <<>> ELSE out
            IN  IF cycle'.len > offset
                THEN /\ lastLogLen' = cycle'.len
                     /\ Len(out') > Len(before)
                     /\ Len(LogChars(out')) = Len(LogChars(before))
                                                 + (cycle'.len - offset)
                ELSE /\ lastLogLen' = offset
                     /\ out' = before]_vars

\* After the two characters of a log were printed the control plane sends a
\* blob of one character: nothing is printed and the offset stays at two.
C29_Witness ==
    /\ Polling
    /\ cycle.detail = "running"
    /\ ~cycle.reset
    /\ cycle.len = 1
    /\ lastLogLen = 2
    /\ out = <<"a", "\n">>

\* C24: no field of the Spinner is written by the caller and read by the
\* ticker goroutine without a synchronization that orders the two: every
\* write of s.message (UpdateMessage, Complete) and of s.running is ordered
\* before the goroutine's reads of it.
C24_NoUnsynchronizedAccess == races = {}

\* A Stop call that found the spinner running has returned.
Stopped == stops >= 1

\* C30: once Stop has returned, the goroutine Start began eventually
\* returns, whatever it was doing when Stop sent its signal.
C30_TickerExitsAfterStop == Stopped ~> (gpc = "exited")

\* A Stop call made after Stop has returned changes nothing and returns in
\* one step.
SecondStopIsNoOp ==
    [][(Stopped /\ stops' # stops) =>
          /\ ppc = "ready"
          /\ ppc' = "ready"
          /\ UNCHANGED <<gpc, running, message, frame, lines, ticker, tickerC,
                         shown>>]_vars

\* The goroutine sleeps in its select after Stop returned: the ticker is
\* stopped, its buffer is empty and running is false, so nothing will wake it.
LeakedGoroutine ==
    /\ Stopped
    /\ gpc = "parked"
    /\ ticker = "stopped"
    /\ tickerC = 0
    /\ ~running

====
